---- MODULE Spec2Model ----
(***************************************************************************)
(* Domain monitor bot: the availability-checking and state-transition      *)
(* engine (checker.py), the record store it runs on (database.py) and the  *)
(* command front end's entry points (bot.py).                              *)
(*                                                                         *)
(* Every coroutine is cut at its awaits: one action is the code between    *)
(* two suspension points, so the handlers of the event loop interleave     *)
(* exactly where asyncio lets them.  Each SQL transaction (the statements  *)
(* up to a commit) is one atomic step.                                     *)
(***************************************************************************)
EXTENDS Integers, Sequences, FiniteSets, TLC

\* Python's None / SQL NULL.
None == "none"

----------------------------------------------------------------------------
\* Bounds of the model.

\* Calls made from outside in one run: the commands of the chats and the
\* scheduler's ticks (check_all_domains, check_domain_by_name, add_domain,
\* remove_domain, add_subscriber, add_proxy, remove_proxy).
MaxOps == 5
\* The same calls in one run of the specification with fairness.
MaxFairOps == 4

\* Calls of the chat commands that take a domain as the user typed it
\* (/add_domain, /remove_domain, /check) in one run of the typed-input
\* specification.
MaxTyped == 2
\* Pieces a typed domain is put together from.
MaxPieces == 4
\* Calls from outside in one run of the specification whose requests end in
\* any of the outcomes.
MaxProbeOps == 3
\* Calls from outside in one run of the specification of the proxy choice.
MaxEgressOps == 4
\* Calls from outside in one run of the specification of the target URL.
MaxUrlOps == 3
\* Calls from outside in one run of the specification whose store calls can
\* fail.
MaxGateOps == 3

\* A string is the sequence of its characters.  The characters of the model,
\* in the order of their code points (the order ORDER BY name compares by).
Alphabet == <<" ", ".", "/", ":", "A", "H", "P", "S", "T", "a", "b", "h", "p", "s", "t">>
Code(c) == CHOOSE i \in 1..Len(Alphabet) : Alphabet[i] = c

\* The domain names the runs of the engine register and check: two host
\* names in normal form.
Names == {<<"a">>, <<"b">>}

\* What a typed domain is made of: white space, a slash, a scheme prefix in
\* either case, a host name in either case.
Pieces == {<<" ">>, <<"/">>,
           <<"h", "t", "t", "p", ":", "/", "/">>,
           <<"H", "T", "T", "P", "S", ":", "/", "/">>,
           <<"a">>, <<"A">>}

RECURSIVE Concat(_)
Concat(ps) == IF ps = <<>> THEN <<>> ELSE Head(ps) \o Concat(Tail(ps))

\* The strings a user types after a command.
Inputs == {Concat(ps) : ps \in UNION {[1..n -> Pieces] : n \in 1..MaxPieces}}

\* The domains typed in the runs that are about the target URL: a host name,
\* a host name that begins with the letters http, either of them behind one
\* scheme prefix, and a host name behind three scheme prefixes (of which the
\* two normalizations take off one each).
UrlInputs == {<<"a">>,
              <<"h", "t", "t", "p", "b">>,
              <<"h", "t", "t", "p", ":", "/", "/", "a">>,
              <<"H", "T", "T", "P", "S", ":", "/", "/", "h", "t", "t", "p", "b">>,
              <<"h", "t", "t", "p", ":", "/", "/">> \o <<"h", "t", "t", "p", ":", "/", "/">>
                  \o <<"h", "t", "t", "p", "s", ":", "/", "/", "a">>}

\* Chats that talk to the bot.
Chats == {"c1", "c2"}
\* SELECT chat_id FROM subscribers walks the INTEGER PRIMARY KEY in order.
ChatOrder == <<"c1", "c2">>

\* Country tags a proxy is added with.
Countries == {"turkey", None}
\* The tags of the runs that are about the choice of the proxy: the preferred
\* country in two spellings, another country, no tag.
Tags == {"turkey", "Turkey", "iran", None}

\* The coroutines that run checks: the scheduler's job and a /check handler.
Procs == {"all", "one"}

\* What the outbound request of one probe ends in: a response with a status
\* code, or an exception of the named class (status 0).  The runs of the
\* engine draw from one answer that is up and one that is down.
Events == {[kind |-> "response", status |-> 200],
           [kind |-> "response", status |-> 503]}

\* What the outbound request can end in: responses on both sides of the
\* status 400, the total timeout (asyncio.TimeoutError), a refused connection
\* or a failed DNS lookup (ClientConnectorError), a failed TLS handshake
\* (ClientConnectorSSLError), a certificate that does not verify
\* (ClientConnectorCertificateError), an SSL error of the ssl module, a URL
\* that does not parse (InvalidURL), a server that hangs up.
Failures == {"TimeoutError", "ClientConnectorError", "ClientConnectorSSLError",
             "ClientConnectorCertificateError", "SSLError", "InvalidURL",
             "ServerDisconnectedError"}
Statuses == {200, 399, 400, 503}
Outcomes == {[kind |-> "response", status |-> c] : c \in Statuses}
            \cup {[kind |-> k, status |-> 0] : k \in Failures}

VARIABLES
    domains,        \* table domains: id -> [name, last_status, last_error, last_checked]
    domainSeq,      \* sqlite_sequence of domains: the largest id ever handed out
    proxies,        \* table proxies: id -> [country, is_active, created_at]
    proxySeq,       \* sqlite_sequence of proxies
    check_logs,     \* table check_logs, in insertion order
    subscribers,    \* table subscribers: the set of chat ids
    clock,          \* datetime.utcnow(), as a counter that every reading advances
    locked,         \* DomainChecker._lock: the coroutine holding it, or None
    waiters,        \* DomainChecker._lock._waiters, first in first out
    pc,             \* where each checking coroutine stands
    arg,            \* check_domain_by_name's name argument
    todo,           \* check_all_domains: the rows of list_domains not yet checked
    rec,            \* _check_domain_record's domain argument (a row as it was read)
    proxy,          \* _get_proxy's proxy: the row chosen, or None
    outcome,        \* (is_up, error) as _perform_check returned it
    chat_ids,       \* broadcast: the chat ids not yet written to
    ret,            \* what the last call returned or raised to its caller
    rm,             \* the remove_proxy handler: its step, argument and return value
    ops,            \* calls made from outside so far
    checks,         \* history: one entry per probe: the row probed, by whom, the URL
                    \* requested, what the request ended in, and the last_status
                    \* its status write replaced
    chk,            \* history: the entry of checks the coroutine is working on
    notifications,  \* history: the broadcasts started, in order
    deliveries      \* history: the send_message calls of the broadcast last started

store == <<domains, domainSeq, check_logs, subscribers>>
pool == <<proxies, proxySeq, rm>>
gate == <<locked, waiters>>
locals == <<pc, arg, todo, rec, proxy, outcome, chat_ids, ret>>
history == <<checks, chk, notifications, deliveries>>
vars == <<store, pool, clock, gate, locals, ops, history>>

NoRec == [id |-> 0, name |-> <<>>, last_status |-> None]
NoOutcome == [is_up |-> FALSE, error |-> None]
\* No proxy row (ids start at 1), and a timestamp column that is NULL.
NoProxy == 0
NoTime == 0
\* What a call handed to its caller: nothing yet, its return value, or the
\* exception it raised.
Pending == [kind |-> "pending", value |-> NoOutcome]

----------------------------------------------------------------------------
\* Domain-name normalization (database.py and bot.py, _normalize_domain).

\* str.lower() of one character
LowerChar(c) ==
    CASE c = "A" -> "a" [] c = "H" -> "h" [] c = "P" -> "p"
      [] c = "S" -> "s" [] c = "T" -> "t" [] OTHER -> c

\* str.lower()
Lower(s) == [i \in 1..Len(s) |-> LowerChar(s[i])]

\* s[n:]
From(s, n) == SubSeq(s, n + 1, Len(s))

\* s.startswith(prefix)
StartsWith(s, prefix) ==
    Len(s) >= Len(prefix) /\ SubSeq(s, 1, Len(prefix)) = prefix

\* s.strip(chars): the characters of the set are taken off both ends.
RECURSIVE LStrip(_, _)
LStrip(s, chars) ==
    IF s # <<>> /\ Head(s) \in chars THEN LStrip(Tail(s), chars) ELSE s

RECURSIVE RStrip(_, _)
RStrip(s, chars) ==
    IF s # <<>> /\ s[Len(s)] \in chars THEN RStrip(SubSeq(s, 1, Len(s) - 1), chars) ELSE s

StripChars(s, chars) == RStrip(LStrip(s, chars), chars)

\* s.strip(): white space is taken off both ends.
Strip(s) == StripChars(s, {" "})

Http == <<"h", "t", "t", "p", ":", "/", "/">>
Https == <<"h", "t", "t", "p", "s", ":", "/", "/">>

\* Database._normalize_domain
NormalizeDomain(name) ==
    LET value == Lower(Strip(name))
        rest == IF StartsWith(value, Http) THEN From(value, 7)
                ELSE IF StartsWith(value, Https) THEN From(value, 8)
                ELSE value
    IN StripChars(rest, {"/"})

\* BotService._normalize_domain
BotNormalizeDomain(value) ==
    LET text == Lower(Strip(value))
        rest == IF StartsWith(text, Http) THEN From(text, 7)
                ELSE IF StartsWith(text, Https) THEN From(text, 8)
                ELSE text
    IN StripChars(rest, {"/"})

\* s sorts before t, or is t, in ORDER BY name.
RECURSIVE Before(_, _)
Before(s, t) ==
    IF s = <<>> THEN TRUE
    ELSE IF t = <<>> THEN FALSE
    ELSE IF Head(s) = Head(t) THEN Before(Tail(s), Tail(t))
    ELSE Code(Head(s)) < Code(Head(t))

----------------------------------------------------------------------------
\* The record store (database.py).

\* remove the row with key k
Drop(f, k) == [i \in DOMAIN f \ {k} |-> f[i]]
\* add or replace the row with key k
Put(f, k, v) == [i \in DOMAIN f \cup {k} |-> IF i = k THEN v ELSE f[i]]

IdOfName(n) == {i \in DOMAIN domains : domains[i].name = n}

\* The row as the SELECTs of list_domains and get_domain return it.
Row(i) == [id |-> i, name |-> domains[i].name, last_status |-> domains[i].last_status]

\* (mutant) a name that is not in the table finds some other row
GetDomainAny(n) ==
    IF IdOfName(NormalizeDomain(n)) # {}
    THEN Row(CHOOSE i \in IdOfName(NormalizeDomain(n)) : TRUE)
    ELSE IF DOMAIN domains = {} THEN NoRec
    ELSE Row(CHOOSE i \in DOMAIN domains : TRUE)

\* get_domain: the row WHERE name = self._normalize_domain(name), or None.
GetDomain(n) ==
    IF IdOfName(NormalizeDomain(n)) = {} THEN NoRec
    ELSE Row(CHOOSE i \in IdOfName(NormalizeDomain(n)) : TRUE)

RECURSIVE SortByName(_)
SortByName(ids) ==
    IF ids = {} THEN <<>>
    ELSE LET first == CHOOSE i \in ids :
                        \A j \in ids : Before(domains[i].name, domains[j].name)
         IN <<Row(first)>> \o SortByName(ids \ {first})

\* list_domains: every row, ORDER BY name.
ListDomains == SortByName(DOMAIN domains)

\* (mutant) a plain INSERT on a table without the UNIQUE constraint on name
AddDomainInsert(n) ==
    /\ ops < MaxOps
    /\ ops' = ops + 1
    /\ domainSeq' = domainSeq + 1
    /\ domains' = Put(domains, domainSeq + 1,
                      [name |-> NormalizeDomain(n), last_status |-> "unknown",
                       last_error |-> None, last_checked |-> NoTime])
    /\ UNCHANGED <<check_logs, subscribers, pool, clock, gate, locals, history>>

\* add_domain: name = self._normalize_domain(name); INSERT OR IGNORE INTO
\* domains(name, last_status) VALUES(?, 'unknown')
AddDomain(n) ==
    /\ ops < MaxOps
    /\ ops' = ops + 1
    /\ IF IdOfName(NormalizeDomain(n)) # {}
       THEN UNCHANGED <<domains, domainSeq>>
       ELSE /\ domainSeq' = domainSeq + 1
            /\ domains' = Put(domains, domainSeq + 1,
                              [name |-> NormalizeDomain(n), last_status |-> "unknown",
                               last_error |-> None, last_checked |-> NoTime])
    /\ UNCHANGED <<check_logs, subscribers, pool, clock, gate, locals, history>>

\* remove_domain: name = self._normalize_domain(name); DELETE FROM domains
\* WHERE name = ?  (the connection never sets PRAGMA foreign_keys, so the rows
\* of check_logs stay).  A name that is not in the table deletes nothing: that
\* call is no step.
RemoveDomain(n) ==
    /\ IdOfName(NormalizeDomain(n)) # {}
    /\ ops < MaxOps
    /\ ops' = ops + 1
    /\ domains' = [i \in DOMAIN domains \ IdOfName(NormalizeDomain(n)) |-> domains[i]]
    /\ UNCHANGED <<domainSeq, check_logs, subscribers, pool, clock, gate, locals, history>>

\* add_subscriber: INSERT OR IGNORE INTO subscribers.  A chat that is already
\* in the table changes nothing: that call is no step.
AddSubscriber(c) ==
    /\ c \notin subscribers
    /\ ops < MaxOps
    /\ ops' = ops + 1
    /\ subscribers' = subscribers \cup {c}
    /\ UNCHANGED <<domains, domainSeq, check_logs, pool, clock, gate, locals, history>>

\* list_subscribers: the chat ids in key order.
ListSubscribers == SelectSeq(ChatOrder, LAMBDA c : c \in subscribers)

\* (mutant) the UPDATE keeps the error of an earlier probe when the new one has none
UpdateKeepingError(id, status, error) ==
    IF id \in DOMAIN domains
    THEN [domains EXCEPT ![id] = [name |-> domains[id].name, last_status |-> status,
                                  last_error |-> IF error = None
                                                 THEN domains[id].last_error ELSE error,
                                  last_checked |-> clock]]
    ELSE domains

\* update_domain_status: UPDATE domains SET ... WHERE id = ?
UpdateDomainStatus(id, status, error) ==
    IF id \in DOMAIN domains
    THEN [domains EXCEPT ![id] = [name |-> domains[id].name, last_status |-> status,
                                  last_error |-> error, last_checked |-> clock]]
    ELSE domains

\* (mutant) only failed probes are logged
LogCheckFailuresOnly(id, status, error) ==
    IF status = "up" THEN check_logs
    ELSE Append(check_logs, [domain_id |-> id, checked_at |-> clock,
                             status |-> status, error |-> error])

\* log_check: INSERT INTO check_logs
LogCheck(id, status, error) ==
    Append(check_logs, [domain_id |-> id, checked_at |-> clock,
                        status |-> status, error |-> error])

\* The proxies ORDER BY created_at DESC LIMIT 1 picks among ids.
Latest(ids) == {i \in ids : \A j \in ids : proxies[j].created_at <= proxies[i].created_at}

Active == {i \in DOMAIN proxies : proxies[i].is_active}

\* (mutant) the insert without the blanket deactivation before it
AddProxyRowsKeepActive(country) ==
    Put(proxies, proxySeq + 1,
        [country |-> country, is_active |-> TRUE, created_at |-> clock])

\* add_proxy: UPDATE proxies SET is_active = 0; INSERT ... is_active = 1; commit
AddProxyRows(country) ==
    Put([i \in DOMAIN proxies |-> [proxies[i] EXCEPT !.is_active = FALSE]],
        proxySeq + 1,
        [country |-> country, is_active |-> TRUE, created_at |-> clock])

AddProxy(country) ==
    /\ ops < MaxOps
    /\ ops' = ops + 1
    /\ proxies' = AddProxyRows(country)
    /\ proxySeq' = proxySeq + 1
    /\ clock' = clock + 1
    /\ UNCHANGED <<rm, store, gate, locals, history>>

\* remove_proxy, up to its first commit: DELETE FROM proxies WHERE id = ?
\* and, with no row deleted, return False.
RemoveProxyDelete(id) ==
    /\ rm.pc = "idle"
    /\ ops < MaxOps
    /\ ops' = ops + 1
    /\ IF id \in DOMAIN proxies
       THEN /\ proxies' = Drop(proxies, id)
            /\ rm' = [pc |-> "activate", id |-> id, ret |-> None]
       ELSE /\ proxies' = proxies
            /\ rm' = [pc |-> "idle", id |-> id, ret |-> "False"]
    /\ UNCHANGED <<proxySeq, store, clock, gate, locals, history>>

\* (mutant) ORDER BY created_at ASC: the oldest remaining row is activated
ActivateOldest ==
    IF DOMAIN proxies = {} THEN proxies
    ELSE LET i == CHOOSE i \in DOMAIN proxies :
                    \A j \in DOMAIN proxies : proxies[i].created_at <= proxies[j].created_at
         IN [proxies EXCEPT ![i].is_active = TRUE]

\* UPDATE proxies SET is_active = 1 WHERE id = (SELECT id FROM proxies
\* ORDER BY created_at DESC LIMIT 1)
ActivateLatest ==
    IF DOMAIN proxies = {} THEN proxies
    ELSE LET i == CHOOSE i \in Latest(DOMAIN proxies) : TRUE
         IN [proxies EXCEPT ![i].is_active = TRUE]

\* remove_proxy, from its first commit to its return of True.
RemoveProxyActivate ==
    /\ rm.pc = "activate"
    /\ proxies' = ActivateLatest
    /\ rm' = [rm EXCEPT !.pc = "idle", !.ret = "True"]
    /\ UNCHANGED <<proxySeq, store, clock, gate, locals, ops, history>>

\* SQL lower() of a country tag; lower(NULL) is NULL.
LowerTag(c) == IF c = "Turkey" THEN "turkey" ELSE c

\* get_proxy_for_country: WHERE lower(country) = lower(?) ORDER BY is_active
\* DESC, created_at DESC LIMIT 1
GetProxyForCountry(country) ==
    LET tagged == {i \in DOMAIN proxies : /\ proxies[i].country # None
                                         /\ LowerTag(proxies[i].country) = LowerTag(country)}
        pick == IF tagged \cap Active # {} THEN tagged \cap Active ELSE tagged
    IN IF tagged = {} THEN NoProxy ELSE CHOOSE i \in Latest(pick) : TRUE

\* get_active_proxy: WHERE is_active = 1 ORDER BY created_at DESC LIMIT 1
GetActiveProxy ==
    IF Active = {} THEN NoProxy ELSE CHOOSE i \in Latest(Active) : TRUE

----------------------------------------------------------------------------
\* The probe (checker.py, _perform_check and _get_proxy).

\* The classes an except clause of _perform_check names that an exception of
\* this class is an instance of: the class itself and its bases in aiohttp's
\* client_exceptions, asyncio and ssl.
Ancestors(kind) ==
    {kind} \cup
    CASE kind = "ClientConnectorCertificateError" ->
            {"ClientSSLError", "ClientConnectorError", "ClientError", "SSLError"}
      [] kind = "ClientConnectorSSLError" ->
            {"ClientSSLError", "ClientConnectorError", "ClientError", "SSLError"}
      [] kind = "ClientSSLError" -> {"ClientConnectorError", "ClientError"}
      [] kind = "ClientConnectorError" -> {"ClientError"}
      [] kind = "ServerDisconnectedError" -> {"ClientError"}
      [] kind = "ServerTimeoutError" -> {"ClientError", "TimeoutError"}
      [] kind = "InvalidURL" -> {"ClientError"}
      [] OTHER -> {}

\* except cls: the exception of the request is an instance of cls
IsA(ev, cls) == cls \in Ancestors(ev.kind)

\* _perform_check: url = domain if domain.startswith("http") else
\* f"https://{domain}"
TargetUrl(domain) ==
    IF StartsWith(domain, <<"h", "t", "t", "p">>) THEN domain ELSE Https \o domain

\* (mutant) except aiohttp.ClientError alone: asyncio.TimeoutError is not caught
PerformCheckTimeoutUncaught(ev) ==
    IF ev.kind = "response"
    THEN IF ev.status < 400
         THEN [is_up |-> TRUE, error |-> None]
         ELSE [is_up |-> FALSE, error |-> "HTTP " \o ToString(ev.status)]
    ELSE IF IsA(ev, "ClientSSLError") \/ IsA(ev, "SSLError")
    THEN [is_up |-> FALSE, error |-> "ERR_SSL_PROTOCOL_ERROR"]
    ELSE IF IsA(ev, "ClientError")
    THEN [is_up |-> FALSE, error |-> ev.kind]
    ELSE [is_up |-> FALSE, error |-> "raised"]

\* (mutant) the status 400 still counts as up and every SSL error is labelled
\* with its class like the other client errors
PerformCheckLoose(ev) ==
    IF ev.kind = "response"
    THEN IF ev.status <= 400
         THEN [is_up |-> TRUE, error |-> None]
         ELSE [is_up |-> FALSE, error |-> "HTTP " \o ToString(ev.status)]
    ELSE IF IsA(ev, "ClientError") \/ IsA(ev, "TimeoutError")
    THEN [is_up |-> FALSE, error |-> ev.kind]
    ELSE IF IsA(ev, "SSLError")
    THEN [is_up |-> FALSE, error |-> "ERR_SSL_PROTOCOL_ERROR"]
    ELSE [is_up |-> FALSE, error |-> "raised"]

\* _perform_check's classification of what the request ended in, the except
\* clauses tried in their order; an exception no except clause names leaves
\* the coroutine ("raised").
PerformCheck(ev) ==
    IF ev.kind = "response"
    THEN IF ev.status < 400
         THEN [is_up |-> TRUE, error |-> None]
         ELSE [is_up |-> FALSE, error |-> "HTTP " \o ToString(ev.status)]
    ELSE IF IsA(ev, "ClientConnectorCertificateError")
    THEN [is_up |-> FALSE, error |-> "ERR_SSL_PROTOCOL_ERROR"]
    ELSE IF IsA(ev, "ClientSSLError")
    THEN [is_up |-> FALSE, error |-> "ERR_SSL_PROTOCOL_ERROR"]
    ELSE IF IsA(ev, "ClientError") \/ IsA(ev, "TimeoutError")
    THEN [is_up |-> FALSE, error |-> ev.kind]
    ELSE IF IsA(ev, "SSLError")
    THEN [is_up |-> FALSE, error |-> "ERR_SSL_PROTOCOL_ERROR"]
    ELSE [is_up |-> FALSE, error |-> "raised"]

----------------------------------------------------------------------------
\* The transition engine (checker.py, DomainChecker).

\* status = "up" if is_up else "down"
StatusOf(o) == IF o.is_up THEN "up" ELSE "down"

\* previous_status = domain.get("last_status") or "unknown"
PreviousStatus(r) == IF r.last_status = None THEN "unknown" ELSE r.last_status

\* (mutant) a recovery is announced on every change to up, whatever came before
DecideAnyChange(notify_on_change, previous_status, status) ==
    IF notify_on_change /\ previous_status # status
    THEN IF status = "down" THEN "down" ELSE "recovery"
    ELSE None

\* The notification _check_domain_record decides on after the two writes:
\* "down", "recovery" or None.
Decide(notify_on_change, previous_status, status) ==
    IF notify_on_change /\ previous_status # status
    THEN IF status = "down" THEN "down"
         ELSE IF previous_status = "down" /\ status = "up" THEN "recovery"
         ELSE None
    ELSE None

\* (mutant) the single check passes notify_on_change=True as well
NotifyAlways(p) == TRUE

\* check_all_domains calls with the default notify_on_change=True,
\* check_domain_by_name with notify_on_change=False.
NotifyOnChange(p) == p = "all"

\* (mutant) the block is entered without waiting for the lock
AcquireNoWait(p, next) ==
    /\ locked' = p
    /\ waiters' = waiters
    /\ pc' = [pc EXCEPT ![p] = next]

\* asyncio.Lock.acquire: taken at once when free with nobody queued, else the
\* caller queues behind the others.
Acquire(p, next) ==
    IF locked = None /\ waiters = <<>>
    THEN /\ locked' = p
         /\ waiters' = waiters
         /\ pc' = [pc EXCEPT ![p] = next]
    ELSE /\ locked' = locked
         /\ waiters' = Append(waiters, p)
         /\ pc' = [pc EXCEPT ![p] = "wait"]

\* asyncio.Lock.release wakes the first waiter, which then takes the lock.
Wake(p) ==
    /\ pc[p] = "wait"
    /\ locked = None
    /\ waiters # <<>>
    /\ Head(waiters) = p
    /\ locked' = p
    /\ waiters' = Tail(waiters)
    /\ pc' = [pc EXCEPT ![p] = IF p = "all" THEN "list" ELSE "get"]
    /\ UNCHANGED <<store, pool, clock, arg, todo, rec, proxy, outcome, chat_ids,
                   ret, ops, history>>

\* What the value check_domain_by_name hands back is made of.
Returned(o) == [kind |-> "returned", value |-> [is_up |-> o.is_up, error |-> o.error]]
\* check_all_domains returns None.
ReturnedNone == [kind |-> "returned", value |-> NoOutcome]
\* raise ValueError
Raised(e) == [kind |-> e, value |-> NoOutcome]

\* (mutant) the lock is given up after every domain of the batch
FinishReleasing(p) ==
    /\ proxy' = [proxy EXCEPT ![p] = NoProxy]
    /\ outcome' = [outcome EXCEPT ![p] = NoOutcome]
    /\ locked' = None
    /\ IF p = "all" /\ todo # <<>>
       THEN /\ rec' = [rec EXCEPT ![p] = Head(todo)]
            /\ todo' = Tail(todo)
            /\ pc' = [pc EXCEPT ![p] = "proxy_country"]
            /\ UNCHANGED ret
       ELSE /\ rec' = [rec EXCEPT ![p] = NoRec]
            /\ todo' = todo
            /\ pc' = [pc EXCEPT ![p] = "idle"]
            /\ ret' = [ret EXCEPT ![p] = IF p = "all" THEN ReturnedNone
                                         ELSE Returned(outcome[p])]

\* (mutant) a probe that found the domain down ends the batch with an error
FinishFailing(p) ==
    /\ proxy' = [proxy EXCEPT ![p] = NoProxy]
    /\ outcome' = [outcome EXCEPT ![p] = NoOutcome]
    /\ IF p = "all" /\ todo # <<>> /\ outcome[p].is_up
       THEN /\ rec' = [rec EXCEPT ![p] = Head(todo)]
            /\ todo' = Tail(todo)
            /\ pc' = [pc EXCEPT ![p] = "proxy_country"]
            /\ UNCHANGED <<ret, locked>>
       ELSE /\ rec' = [rec EXCEPT ![p] = NoRec]
            /\ todo' = todo
            /\ pc' = [pc EXCEPT ![p] = "idle"]
            /\ ret' = [ret EXCEPT ![p] = IF p = "one" THEN Returned(outcome[p])
                                         ELSE IF outcome[p].is_up THEN ReturnedNone
                                         ELSE Raised("ProbeFailure")]
            /\ locked' = None

\* The end of _check_domain_record and what its caller does next without
\* suspending: the batch goes on to its next row or leaves the lock's block;
\* the single check returns the outcome and leaves the lock's block.
Finish(p) ==
    /\ proxy' = [proxy EXCEPT ![p] = NoProxy]
    /\ outcome' = [outcome EXCEPT ![p] = NoOutcome]
    /\ IF p = "all" /\ todo # <<>>
       THEN /\ rec' = [rec EXCEPT ![p] = Head(todo)]
            /\ todo' = Tail(todo)
            /\ pc' = [pc EXCEPT ![p] = "proxy_country"]
            /\ UNCHANGED <<ret, locked>>
       ELSE /\ rec' = [rec EXCEPT ![p] = NoRec]
            /\ todo' = todo
            /\ pc' = [pc EXCEPT ![p] = "idle"]
            /\ ret' = [ret EXCEPT ![p] = IF p = "all" THEN ReturnedNone
                                         ELSE Returned(outcome[p])]
            /\ locked' = None

\* The locals that a step inside _check_domain_record leaves alone.
Continue == UNCHANGED <<todo, rec, ret, locked, proxy, outcome>>

\* check_all_domains is called: async with self._lock.
StartCheckAll ==
    /\ pc["all"] = "idle"
    /\ ops < MaxOps
    /\ ops' = ops + 1
    /\ ret' = [ret EXCEPT !["all"] = Pending]
    /\ Acquire("all", "list")
    /\ UNCHANGED <<store, pool, clock, arg, todo, rec, proxy, outcome, chat_ids,
                   history>>

\* domains = await self.db.list_domains(), and the loop's first row.
CheckAllList ==
    /\ pc["all"] = "list"
    /\ IF ListDomains = <<>>
       THEN /\ pc' = [pc EXCEPT !["all"] = "idle"]
            /\ ret' = [ret EXCEPT !["all"] = ReturnedNone]
            /\ locked' = None
            /\ UNCHANGED <<rec, todo>>
       ELSE /\ rec' = [rec EXCEPT !["all"] = Head(ListDomains)]
            /\ todo' = Tail(ListDomains)
            /\ pc' = [pc EXCEPT !["all"] = "proxy_country"]
            /\ UNCHANGED <<ret, locked>>
    /\ UNCHANGED <<store, pool, clock, waiters, arg, proxy, outcome, chat_ids,
                   ops, history>>

\* check_domain_by_name(name) is called: async with self._lock.
StartCheckOne(n) ==
    /\ pc["one"] = "idle"
    /\ ops < MaxOps
    /\ ops' = ops + 1
    /\ arg' = n
    /\ ret' = [ret EXCEPT !["one"] = Pending]
    /\ Acquire("one", "get")
    /\ UNCHANGED <<store, pool, clock, todo, rec, proxy, outcome, chat_ids,
                   history>>

\* record = await self.db.get_domain(name); without a row ValueError leaves
\* the lock's block.
CheckOneGet ==
    /\ pc["one"] = "get"
    /\ IF GetDomain(arg) = NoRec
       THEN /\ pc' = [pc EXCEPT !["one"] = "idle"]
            /\ ret' = [ret EXCEPT !["one"] = Raised("ValueError")]
            /\ locked' = None
            /\ rec' = rec
       ELSE /\ rec' = [rec EXCEPT !["one"] = GetDomain(arg)]
            /\ pc' = [pc EXCEPT !["one"] = "proxy_country"]
            /\ UNCHANGED <<ret, locked>>
    /\ UNCHANGED <<store, pool, clock, waiters, arg, todo, proxy, outcome, chat_ids,
                   ops, history>>

\* _get_proxy: proxy = await self.db.get_proxy_for_country("turkey")
GetProxyCountry(p) ==
    /\ pc[p] = "proxy_country"
    /\ proxy' = [proxy EXCEPT ![p] = GetProxyForCountry("turkey")]
    /\ pc' = [pc EXCEPT ![p] = IF GetProxyForCountry("turkey") = NoProxy
                                THEN "proxy_active" ELSE "request"]
    /\ UNCHANGED <<store, pool, clock, gate, arg, todo, rec, outcome, chat_ids,
                   ret, ops, history>>

\* _get_proxy: if not proxy: proxy = await self.db.get_active_proxy()
GetProxyActive(p) ==
    /\ pc[p] = "proxy_active"
    /\ proxy' = [proxy EXCEPT ![p] = GetActiveProxy]
    /\ pc' = [pc EXCEPT ![p] = "request"]
    /\ UNCHANGED <<store, pool, clock, gate, arg, todo, rec, outcome, chat_ids,
                   ret, ops, history>>

\* _perform_check: the request is made and ends in ev.
Request(p, ev) ==
    /\ pc[p] = "request"
    /\ outcome' = [outcome EXCEPT ![p] = PerformCheck(ev)]
    /\ pc' = [pc EXCEPT ![p] = "update"]
    /\ checks' = Append(checks,
                   [id |-> rec[p].id, name |-> rec[p].name, by |-> p, event |-> ev,
                    url |-> TargetUrl(rec[p].name), stored |-> "pending"])
    /\ chk' = [chk EXCEPT ![p] = Len(checks) + 1]
    /\ UNCHANGED <<store, pool, clock, gate, arg, todo, rec, proxy, chat_ids,
                   ret, ops, notifications, deliveries>>

\* await self.db.update_domain_status(domain["id"], status, error)
UpdateStatus(p) ==
    /\ pc[p] = "update"
    /\ domains' = UpdateDomainStatus(rec[p].id, StatusOf(outcome[p]), outcome[p].error)
    /\ clock' = clock + 1
    /\ checks' = [checks EXCEPT ![chk[p]].stored =
                       IF rec[p].id \in DOMAIN domains
                       THEN domains[rec[p].id].last_status ELSE "gone"]
    /\ pc' = [pc EXCEPT ![p] = "log"]
    /\ UNCHANGED <<domainSeq, check_logs, subscribers, pool, gate, arg, todo, rec,
                   proxy, outcome, chat_ids, ret, ops, chk, notifications,
                   deliveries>>

\* await self.db.log_check(domain["id"], status, error), then the
\* notification decision; a notification starts with broadcast's call of
\* list_subscribers.
LogAndDecide(p) ==
    /\ pc[p] = "log"
    /\ check_logs' = LogCheck(rec[p].id, StatusOf(outcome[p]), outcome[p].error)
    /\ clock' = clock + 1
    /\ LET kind == Decide(NotifyOnChange(p), PreviousStatus(rec[p]), StatusOf(outcome[p]))
       IN IF kind = None
          THEN /\ Finish(p)
               /\ UNCHANGED <<notifications, deliveries>>
          ELSE /\ notifications' = Append(notifications,
                     [kind |-> kind, name |-> rec[p].name, id |-> rec[p].id,
                      check |-> chk[p],
                      error |-> IF kind = "recovery" THEN None
                                ELSE IF outcome[p].error = None THEN "Unknown error"
                                ELSE outcome[p].error])
               /\ deliveries' = <<>>
               /\ pc' = [pc EXCEPT ![p] = "subs"]
               /\ Continue
    /\ UNCHANGED <<domains, domainSeq, subscribers, pool, waiters, arg,
                   chat_ids, ops, checks, chk>>

\* broadcast: chat_ids = await self.db.list_subscribers()
Subscribers(p) ==
    /\ pc[p] = "subs"
    /\ IF ListSubscribers = <<>>
       THEN /\ Finish(p)
            /\ UNCHANGED chat_ids
       ELSE /\ chat_ids' = [chat_ids EXCEPT ![p] = ListSubscribers]
            /\ pc' = [pc EXCEPT ![p] = "send"]
            /\ Continue
    /\ UNCHANGED <<store, pool, clock, waiters, arg, ops, history>>

\* (mutant) a send_message call that fails ends the loop over the chat ids
SendUntilFailure(p, ok) ==
    /\ pc[p] = "send"
    /\ deliveries' = Append(deliveries,
                       [chat |-> Head(chat_ids[p]), check |-> chk[p], ok |-> ok])
    /\ IF Tail(chat_ids[p]) = <<>> \/ ~ok
       THEN chat_ids' = [chat_ids EXCEPT ![p] = <<>>] /\ Finish(p)
       ELSE /\ chat_ids' = [chat_ids EXCEPT ![p] = Tail(chat_ids[p])]
            /\ UNCHANGED pc /\ Continue
    /\ UNCHANGED <<store, pool, clock, waiters, arg, ops,
                   checks, chk, notifications>>

\* broadcast: await self.bot.send_message(chat_id, message); an exception of
\* the call is logged and the loop goes on.
Send(p, ok) ==
    /\ pc[p] = "send"
    /\ deliveries' = Append(deliveries,
                       [chat |-> Head(chat_ids[p]), check |-> chk[p], ok |-> ok])
    /\ chat_ids' = [chat_ids EXCEPT ![p] = Tail(chat_ids[p])]
    /\ IF Tail(chat_ids[p]) = <<>>
       THEN Finish(p)
       ELSE UNCHANGED pc /\ Continue
    /\ UNCHANGED <<store, pool, clock, waiters, arg, ops,
                   checks, chk, notifications>>

\* The store calls a check awaits inside the lock's block: list_domains,
\* get_domain, the two proxy lookups, update_domain_status, log_check and
\* broadcast's list_subscribers.
StoreCalls == {"list", "get", "proxy_country", "proxy_active", "update", "log", "subs"}

\* What the exception of a store call does to the coroutine's locals: the
\* frames of _check_domain_record and of the check are left, the exception
\* reaches the caller of the check.
Abandon(p) ==
    /\ pc' = [pc EXCEPT ![p] = "idle"]
    /\ ret' = [ret EXCEPT ![p] = Raised("sqlite3.Error")]
    /\ rec' = [rec EXCEPT ![p] = NoRec]
    /\ proxy' = [proxy EXCEPT ![p] = NoProxy]
    /\ outcome' = [outcome EXCEPT ![p] = NoOutcome]
    /\ todo' = IF p = "all" THEN <<>> ELSE todo

\* (mutant) the lock taken with acquire() and given back with release() at
\* the end of the block, without try/finally: an exception leaves it held
StoreFailsHolding(p) ==
    /\ pc[p] \in StoreCalls
    /\ Abandon(p)
    /\ UNCHANGED <<store, pool, clock, gate, arg, chat_ids, ops, history>>

\* The store call the coroutine awaits raises (aiosqlite hands on
\* sqlite3.Error): nothing is written, no except clause of the checker or
\* the notifier names the exception, and async with self._lock releases the
\* lock on the way out.
StoreFails(p) ==
    /\ pc[p] \in StoreCalls
    /\ Abandon(p)
    /\ locked' = None
    /\ UNCHANGED <<store, pool, clock, waiters, arg, chat_ids, ops, history>>

----------------------------------------------------------------------------
Init ==
    /\ domains = <<>>
    /\ domainSeq = 0
    /\ proxies = <<>>
    /\ proxySeq = 0
    /\ check_logs = <<>>
    /\ subscribers = {}
    /\ clock = 1
    /\ locked = None
    /\ waiters = <<>>
    /\ pc = [p \in Procs |-> "idle"]
    /\ arg = <<>>
    /\ todo = <<>>
    /\ rec = [p \in Procs |-> NoRec]
    /\ proxy = [p \in Procs |-> NoProxy]
    /\ outcome = [p \in Procs |-> NoOutcome]
    /\ chat_ids = [p \in Procs |-> <<>>]
    /\ ret = [p \in Procs |-> Pending]
    /\ rm = [pc |-> "idle", id |-> 0, ret |-> None]
    /\ ops = 0
    /\ checks = <<>>
    /\ chk = [p \in Procs |-> 0]
    /\ notifications = <<>>
    /\ deliveries = <<>>

Next ==
    \/ \E n \in Names : AddDomain(n)
    \/ \E n \in Names : RemoveDomain(n)
    \/ \E c \in Chats : AddSubscriber(c)
    \/ \E c \in Countries : AddProxy(c)
    \/ \E i \in 1..(proxySeq + 1) : RemoveProxyDelete(i)
    \/ RemoveProxyActivate
    \/ StartCheckAll
    \/ CheckAllList
    \/ \E n \in Names : StartCheckOne(n)
    \/ CheckOneGet
    \/ \E p \in Procs : Wake(p)
    \/ \E p \in Procs : GetProxyCountry(p)
    \/ \E p \in Procs : GetProxyActive(p)
    \/ \E p \in Procs, ev \in Events : Request(p, ev)
    \/ \E p \in Procs : UpdateStatus(p)
    \/ \E p \in Procs : LogAndDecide(p)
    \/ \E p \in Procs : Subscribers(p)
    \/ \E p \in Procs, ok \in BOOLEAN : Send(p, ok)

Spec == Init /\ [][Next]_vars

\* The next step of a checking coroutine.  The event loop runs every coroutine
\* that is ready, every store call returns and every request ends (the client
\* session has a total timeout), so no coroutine stays ready forever.
Step(p) ==
    \/ Wake(p)
    \/ (p = "all" /\ CheckAllList)
    \/ (p = "one" /\ CheckOneGet)
    \/ GetProxyCountry(p)
    \/ GetProxyActive(p)
    \/ \E ev \in Events : Request(p, ev)
    \/ UpdateStatus(p)
    \/ LogAndDecide(p)
    \/ Subscribers(p)
    \/ \E ok \in BOOLEAN : Send(p, ok)

\* The steps of the runs with at most MaxFairOps calls from outside.
NextFair ==
    \/ ops < MaxFairOps /\ \E n \in Names : AddDomain(n)
    \/ ops < MaxFairOps /\ \E n \in Names : RemoveDomain(n)
    \/ ops < MaxFairOps /\ \E c \in Chats : AddSubscriber(c)
    \/ ops < MaxFairOps /\ \E c \in Countries : AddProxy(c)
    \/ ops < MaxFairOps /\ \E i \in 1..(proxySeq + 1) : RemoveProxyDelete(i)
    \/ RemoveProxyActivate
    \/ ops < MaxFairOps /\ StartCheckAll
    \/ ops < MaxFairOps /\ \E n \in Names : StartCheckOne(n)
    \/ \E p \in Procs : Step(p)

FairSpec == Init /\ [][NextFair]_vars /\ \A p \in Procs : WF_vars(Step(p))

\* The runs whose requests end in any of the outcomes of the HTTP client, with
\* at most MaxProbeOps calls from outside and nobody subscribed.
NextProbe ==
    \/ ops < MaxProbeOps /\ \E n \in Names : AddDomain(n)
    \/ ops < MaxProbeOps /\ \E n \in Names : RemoveDomain(n)
    \/ ops < MaxProbeOps /\ \E c \in Countries : AddProxy(c)
    \/ ops < MaxProbeOps /\ StartCheckAll
    \/ ops < MaxProbeOps /\ \E n \in Names : StartCheckOne(n)
    \/ CheckAllList
    \/ CheckOneGet
    \/ \E p \in Procs : Wake(p)
    \/ \E p \in Procs : GetProxyCountry(p)
    \/ \E p \in Procs : GetProxyActive(p)
    \/ \E p \in Procs, ev \in Outcomes : Request(p, ev)
    \/ \E p \in Procs : UpdateStatus(p)
    \/ \E p \in Procs : LogAndDecide(p)
    \/ \E p \in Procs : Subscribers(p)

SpecProbe == Init /\ [][NextProbe]_vars

\* The runs that are about the proxy a check goes through: single checks of
\* one domain while proxies of any tag are added and removed.
NextEgress ==
    \/ ops < MaxEgressOps /\ AddDomain(<<"a">>)
    \/ ops < MaxEgressOps /\ \E c \in Tags : AddProxy(c)
    \/ ops < MaxEgressOps /\ \E i \in 1..(proxySeq + 1) : RemoveProxyDelete(i)
    \/ RemoveProxyActivate
    \/ ops < MaxEgressOps /\ StartCheckOne(<<"a">>)
    \/ CheckOneGet
    \/ GetProxyCountry("one")
    \/ GetProxyActive("one")
    \/ \E ev \in Events : Request("one", ev)
    \/ UpdateStatus("one")
    \/ LogAndDecide("one")

SpecEgress == Init /\ [][NextEgress]_vars

----------------------------------------------------------------------------
\* The chat commands that take a domain as typed (bot.py): the handler
\* normalizes the text and hands the result to the store or the checker,
\* which normalize what they are given.

\* /add_domain
TypedAddDomain(text) ==
    /\ ops < MaxTyped
    /\ AddDomain(BotNormalizeDomain(text))

\* /remove_domain
TypedRemoveDomain(text) ==
    /\ ops < MaxTyped
    /\ RemoveDomain(BotNormalizeDomain(text))

\* /check
TypedForceCheck(text) ==
    /\ ops < MaxTyped
    /\ StartCheckOne(BotNormalizeDomain(text))

NextTyped ==
    \/ \E text \in Inputs : TypedAddDomain(text)
    \/ \E text \in Inputs : TypedRemoveDomain(text)
    \/ \E text \in Inputs : TypedForceCheck(text)
    \/ CheckOneGet
    \/ GetProxyCountry("one")
    \/ GetProxyActive("one")
    \/ \E ev \in Events : Request("one", ev)
    \/ UpdateStatus("one")
    \/ LogAndDecide("one")

\* The runs in which the chats type the domains of their commands.
SpecTyped == Init /\ [][NextTyped]_vars

\* The runs that are about the URL a probe requests: domains are registered
\* by /add_domain as typed and checked by the scheduler's job and by /check.
NextUrl ==
    \/ ops < MaxUrlOps /\ \E text \in UrlInputs : AddDomain(BotNormalizeDomain(text))
    \/ ops < MaxUrlOps /\ StartCheckAll
    \/ ops < MaxUrlOps /\ \E text \in UrlInputs : StartCheckOne(BotNormalizeDomain(text))
    \/ CheckAllList
    \/ CheckOneGet
    \/ \E p \in Procs : Wake(p)
    \/ \E p \in Procs : GetProxyCountry(p)
    \/ \E p \in Procs : GetProxyActive(p)
    \/ \E p \in Procs, ev \in Events : Request(p, ev)
    \/ \E p \in Procs : UpdateStatus(p)
    \/ \E p \in Procs : LogAndDecide(p)
    \/ \E p \in Procs : Subscribers(p)

SpecUrl == Init /\ [][NextUrl]_vars

\* The next step of a checking coroutine when the store can fail: the step
\* it would take, or the exception of the store call it awaits.
GateStep(p) ==
    \/ Step(p)
    \/ StoreFails(p)

\* The runs in which any store call of a check can fail, with at most
\* MaxGateOps calls from outside.
NextGate ==
    \/ ops < MaxGateOps /\ \E n \in Names : AddDomain(n)
    \/ ops < MaxGateOps /\ \E c \in Chats : AddSubscriber(c)
    \/ ops < MaxGateOps /\ StartCheckAll
    \/ ops < MaxGateOps /\ \E n \in Names : StartCheckOne(n)
    \/ \E p \in Procs : GateStep(p)

\* Every coroutine that is ready is run, and every store call and request
\* comes to an end.
SpecGate == Init /\ [][NextGate]_vars /\ \A p \in Procs : WF_vars(GateStep(p))

----------------------------------------------------------------------------
\* Vocabulary of the properties.

\* The probes made so far, by their position in the history.
Probes == 1..Len(checks)

\* The request of probe k was answered with a status code below 400.
FoundUp(k) == checks[k].event.kind = "response" /\ checks[k].event.status < 400

\* Probe k's check is still between its request and its notification decision.
Working(k) == \E p \in Procs : chk[p] = k /\ pc[p] \in {"update", "log"}

\* Probe k's check has written the status, appended the log entry and decided.
Decided(k) == ~Working(k)

\* The broadcasts that probe k's check started.
NotesOf(k) == {i \in 1..Len(notifications) : notifications[i].check = k}

\* Probe k's check started exactly one broadcast, of this kind, naming its domain.
OneNote(k, kind) ==
    /\ Cardinality(NotesOf(k)) = 1
    /\ \A i \in NotesOf(k) : /\ notifications[i].kind = kind
                             /\ notifications[i].name = checks[k].name

\* Probes j < k are of the same row with no probe of that row between them.
Consecutive(j, k) ==
    /\ j < k
    /\ checks[j].id = checks[k].id
    /\ \A m \in Probes : j < m /\ m < k => checks[m].id # checks[j].id

\* Probe k was made by check_all_domains on a row still in the table when its
\* status was written.
BatchProbe(k) == checks[k].by = "all" /\ Decided(k) /\ checks[k].stored # "gone"

----------------------------------------------------------------------------
\* C1 (as claimed): a check_all_domains probe of a domain whose stored
\* last_status is unknown that finds it down broadcasts nothing, and a
\* check_all_domains probe that finds a stored-down domain up broadcasts exactly
\* one recovery notification.
C1_FirstCheckSilence ==
    \A k \in Probes :
        BatchProbe(k) =>
            /\ (checks[k].stored = "unknown" /\ ~FoundUp(k)) => NotesOf(k) = {}
            /\ (checks[k].stored = "down" /\ FoundUp(k)) => OneNote(k, "recovery")

\* C2: for a newly registered domain whose three consecutive check_all_domains
\* probes find it up, down, up, the first probe broadcasts nothing, the second
\* exactly one "went down" and the third exactly one "recovered": two
\* notifications in all.
C2_Flap ==
    \A a, b, c \in Probes :
        ( /\ Consecutive(a, b) /\ Consecutive(b, c)
          /\ BatchProbe(a) /\ BatchProbe(b) /\ BatchProbe(c)
          /\ checks[a].stored = "unknown"
          /\ FoundUp(a) /\ ~FoundUp(b) /\ FoundUp(c) )
        => /\ NotesOf(a) = {}
           /\ OneNote(b, "down")
           /\ OneNote(c, "recovery")
           /\ Cardinality(NotesOf(a) \cup NotesOf(b) \cup NotesOf(c)) = 2

C2_Witness ==
    \E a, b, c \in Probes :
        /\ Consecutive(a, b) /\ Consecutive(b, c)
        /\ BatchProbe(a) /\ BatchProbe(b) /\ BatchProbe(c)
        /\ checks[a].stored = "unknown"
        /\ FoundUp(a) /\ ~FoundUp(b) /\ FoundUp(c)
        /\ pc["all"] = "idle"

\* C3: check_domain_by_name never starts a broadcast, whatever the previous
\* status and the probe's outcome, and returns the (is_up, error) of the probe
\* it ran.
C3_ManualCheckSilent ==
    /\ [](\A k \in Probes : checks[k].by = "one" => NotesOf(k) = {})
    /\ [][ (pc["one"] \notin {"idle", "wait", "get"} /\ pc'["one"] = "idle")
           => /\ ret'["one"].kind = "returned"
              /\ ret'["one"].value = outcome["one"]
              /\ ret'["one"].value = PerformCheck(checks[chk["one"]].event)
              /\ ret'["one"].value.is_up = FoundUp(chk["one"])
              /\ notifications' = notifications ]_vars

C3_Witness ==
    \E k \in Probes :
        /\ checks[k].by = "one" /\ Decided(k)
        /\ checks[k].stored = "up" /\ ~FoundUp(k)
        /\ pc["one"] = "idle" /\ ret["one"].kind = "returned"
        /\ ~ret["one"].value.is_up

\* The n-th smallest element of a set of numbers.
Nth(S, n) == CHOOSE x \in S : Cardinality({y \in S : y < x}) = n - 1

\* The probes of row id whose check has appended its log entry.
LoggedProbes(id) ==
    {k \in Probes : checks[k].id = id
                    /\ ~\E p \in Procs : chk[p] = k /\ pc[p] \in {"update", "log"}}

\* The probes of row id whose check has written the status.
WrittenProbes(id) ==
    {k \in Probes : checks[k].id = id /\ ~\E p \in Procs : chk[p] = k /\ pc[p] = "update"}

\* The log entries of row id, by position in the table.
LogsOf(id) == {i \in 1..Len(check_logs) : check_logs[i].domain_id = id}

\* C4: every probe, by either kind of check and whatever it found or
\* announced, appends exactly one log entry with the probe's status and error
\* (so a domain has as many log entries as completed probes) and sets the
\* domain's last_checked to the time of that probe.
C4_LogEveryProbe ==
    \A id \in 1..domainSeq :
        /\ Cardinality(LogsOf(id)) = Cardinality(LoggedProbes(id))
        /\ \A n \in 1..Cardinality(LogsOf(id)) :
              LET entry == check_logs[Nth(LogsOf(id), n)]
                  probe == PerformCheck(checks[Nth(LoggedProbes(id), n)].event)
              IN /\ entry.status = (IF probe.is_up THEN "up" ELSE "down")
                 /\ entry.error = probe.error
        /\ (id \in DOMAIN domains /\ WrittenProbes(id) # {})
              => /\ domains[id].last_checked # NoTime
                 /\ \A i \in LogsOf(id) :
                       LET last == Nth(LogsOf(id), Cardinality(LogsOf(id)))
                       IN IF WrittenProbes(id) = LoggedProbes(id) /\ i = last
                          THEN domains[id].last_checked < check_logs[i].checked_at
                          ELSE check_logs[i].checked_at < domains[id].last_checked

C4_Witness ==
    \E id \in DOMAIN domains :
        /\ Cardinality(LogsOf(id)) = 2
        /\ \E j, k \in LoggedProbes(id) :
              /\ checks[j].by = "all" /\ checks[k].by = "one"
              /\ FoundUp(j) = FoundUp(k)
        /\ \A p \in Procs : pc[p] = "idle"

\* A step of the check_domain_by_name call.
StepOfOne == pc'["one"] # pc["one"] \/ ret'["one"] # ret["one"]

\* C5: check_domain_by_name on a name that is not registered raises ValueError
\* and its steps leave the four tables as they were, probe nothing and
\* announce nothing.
C5_NotFound ==
    [][ /\ (StepOfOne /\ pc["one"] = "get" /\ IdOfName(NormalizeDomain(arg)) = {})
            => /\ ret'["one"] = Raised("ValueError")
               /\ pc'["one"] = "idle"
        /\ (StepOfOne /\ (pc'["one"] \in {"wait", "get"} \/ ret'["one"].kind = "ValueError"))
            => /\ UNCHANGED <<domains, domainSeq, check_logs, proxies, proxySeq, subscribers>>
               /\ UNCHANGED <<checks, notifications, deliveries>>
        /\ (ret'["one"].kind = "ValueError" /\ StepOfOne) => IdOfName(NormalizeDomain(arg)) = {}
      ]_vars

C5_Witness ==
    /\ ret["one"] = Raised("ValueError")
    /\ pc["one"] = "idle"
    /\ DOMAIN domains # {}
    /\ IdOfName(NormalizeDomain(arg)) = {}
    /\ pc["all"] \in {"request", "update", "log"}

\* The positions inside the lock's block.
InPass(p) == pc[p] \notin {"idle", "wait"}

\* C6: at most one check operation is inside its pass at a time, and the
\* previous status a check decides with is the one the table holds for that
\* domain when the check replaces it (never a stale one).
C6_MutualExclusion ==
    /\ Cardinality({p \in Procs : InPass(p)}) <= 1
    /\ \A p \in Procs : InPass(p) => locked = p
    /\ \A p \in Procs :
          (pc[p] \in {"proxy_country", "proxy_active", "request", "update"}
           /\ rec[p].id \in DOMAIN domains)
          => PreviousStatus(rec[p]) = domains[rec[p].id].last_status
    /\ \A k \in Probes :
          (checks[k].stored \notin {"pending", "gone", "unknown"})
          => \E j \in Probes : /\ Consecutive(j, k)
                               /\ checks[k].stored = StatusOf(PerformCheck(checks[j].event))

C6_Witness ==
    /\ pc["one"] = "wait"
    /\ pc["all"] = "update"
    /\ rec["all"].name = arg
    /\ rec["all"].last_status = "up"

\* C7: the lock is held for a whole batch and a whole single check: it is
\* given up only by the return of the call (the batch with no row left to
\* check), a call that found the lock taken does nothing inside the block
\* before it holds the lock, no caller is turned away with an error, and every
\* caller that waits gets to run and returns.
C7_GateHeldForBatch ==
    /\ [][ /\ (locked = "all" /\ locked' # "all")
               => (todo = <<>> /\ pc'["all"] = "idle" /\ ret'["all"] = ReturnedNone)
           /\ (locked = "one" /\ locked' # "one")
               => (pc'["one"] = "idle" /\ ret'["one"].kind \in {"returned", "ValueError"})
           /\ \A p \in Procs : (pc[p] = "wait" /\ pc'[p] # "wait")
               => (locked = None /\ locked' = p /\ \A q \in Procs \ {p} : ~InPass(q))
         ]_vars
    /\ [](\A p \in Procs : /\ InPass(p) => locked = p
                           /\ ret[p].kind \in {"pending", "returned", "ValueError"})
    /\ \A p \in Procs : (pc[p] = "wait") ~> (pc[p] = "idle" /\ ret[p].kind # "pending")

\* check_domain_by_name waits while the batch is between two domains of its list.
C7_Witness ==
    /\ pc["one"] = "wait"
    /\ locked = "all"
    /\ pc["all"] = "proxy_country"
    /\ Len(checks) = 1
    /\ checks[1].by = "all" /\ Decided(1)
    /\ rec["all"].id \notin {0, checks[1].id}

\* C8: at most one proxy is active, and with no remove_proxy call under way a
\* pool that is not empty has exactly one active proxy.
C8_SingleActive ==
    /\ Cardinality(Active) <= 1
    /\ (rm.pc = "idle" /\ DOMAIN proxies # {}) => Cardinality(Active) = 1

C8_Witness ==
    /\ Cardinality(DOMAIN proxies) = 2
    /\ rm.pc = "idle" /\ rm.ret = "True"
    /\ Cardinality(Active) = 1

\* The rows of the pool created last.
Newest == {i \in DOMAIN proxies :
              \A j \in DOMAIN proxies : proxies[j].created_at <= proxies[i].created_at}

\* C9: add_proxy leaves the new proxy as the only active one; remove_proxy of
\* the active proxy (the pool is left with no active row by its DELETE) leaves
\* the most recently created remaining proxy active, if one remains;
\* remove_proxy of an id that is not in the pool returns False and changes no
\* row.
C9_AddRemoveProxy ==
    [][ /\ (proxySeq' = proxySeq + 1)
            => /\ proxySeq' \in DOMAIN proxies'
               /\ Active' = {proxySeq'}
        /\ (rm.pc = "activate" /\ rm'.pc = "idle")
            => /\ rm'.ret = "True"
               /\ (Active = {} /\ DOMAIN proxies' # {})
                    => (Active' = Newest' /\ Cardinality(Active') = 1)
        /\ (rm.pc = "idle" /\ rm' # rm /\ rm'.id \notin DOMAIN proxies)
            => (rm'.ret = "False" /\ rm'.pc = "idle")
        /\ (rm.pc = "idle" /\ rm'.pc = "idle" /\ proxySeq' = proxySeq)
            => proxies' = proxies
      ]_vars

\* remove_proxy deleted the proxy that was active, the newest of three, and
\* has returned.
C9_Witness ==
    /\ rm.pc = "idle" /\ rm.ret = "True" /\ rm.id = proxySeq
    /\ Cardinality(DOMAIN proxies) = 2
    /\ Active = Newest

\* C10 (as claimed): normalization is canonical and idempotent.  A name that
\* has been normalized is left unchanged by normalizing it again: the name a
\* command hands on after normalizing it is the name the store looks up, and
\* every name in the table is its own normal form.  All the variants of a
\* name resolve to one record: no two rows have names with the same normal
\* form.
C10_Normalization ==
    /\ pc["one"] # "idle" => NormalizeDomain(arg) = arg
    /\ \A i \in DOMAIN domains : NormalizeDomain(domains[i].name) = domains[i].name
    /\ \A i, j \in DOMAIN domains :
          NormalizeDomain(domains[i].name) = NormalizeDomain(domains[j].name) => i = j

\* A call from outside that is no remove_domain, no add_subscriber, no
\* add_proxy, no remove_proxy that deleted a row and no start of a check: an
\* add_domain call (or a call that changed nothing at all).
AddDomainStep ==
    /\ ops' = ops + 1
    /\ DOMAIN domains \subseteq DOMAIN domains'
    /\ UNCHANGED <<subscribers, proxies, pc, ret>>

\* C11: no two rows of domains have the same name, and an add_domain call
\* leaves every row that was there as it was (id, last_status, last_error,
\* last_checked), inserting at most one row, with a fresh id, the status
\* unknown and a name no row had.
C11_NoDuplicates ==
    /\ [](\A i, j \in DOMAIN domains : domains[i].name = domains[j].name => i = j)
    /\ [][ AddDomainStep =>
             /\ \A i \in DOMAIN domains : domains'[i] = domains[i]
             /\ \A i \in DOMAIN domains' \ DOMAIN domains :
                   /\ i = domainSeq + 1
                   /\ domains'[i].last_status = "unknown"
                   /\ domains'[i].last_checked = NoTime
                   /\ \A j \in DOMAIN domains : domains[j].name # domains'[i].name
         ]_vars

\* Two add_domain calls, the second of a name already registered: one row.
C11_Witness ==
    /\ ops = 2
    /\ domainSeq = 1
    /\ Cardinality(DOMAIN domains) = 1
    /\ \A p \in Procs : ret[p] = Pending
    /\ rm.id = 0
    /\ subscribers = {}
    /\ proxySeq = 0

\* The probe the step appends to the history.
NewProbe == checks'[Len(checks')]
\* Its request was answered with a status code below 400.
NewFoundUp == NewProbe.event.kind = "response" /\ NewProbe.event.status < 400

\* C12: check_all_domains takes the rows of list_domains one after the other,
\* makes one request for each, writes the status of each outcome (down with
\* its error for every failure, whatever the request ended in) into the row
\* and the log, goes on to the next row after a failure as after a success,
\* and returns None after the last row: it never raises.
C12_BatchSurvivesFailures ==
    /\ [](ret["all"] \in {Pending, ReturnedNone})
    /\ [][ /\ (pc["all"] = "list" /\ pc'["all"] # "list")
               => IF ListDomains = <<>>
                  THEN pc'["all"] = "idle" /\ ret'["all"] = ReturnedNone
                  ELSE /\ <<rec'["all"]>> \o todo' = ListDomains
                       /\ pc'["all"] = "proxy_country"
           /\ (pc'["all"] = "request" /\ pc["all"] # "request")
               => (pc["all"] \in {"proxy_country", "proxy_active"} /\ rec'["all"] = rec["all"])
           /\ (Len(checks') # Len(checks) /\ NewProbe.by = "all")
               => /\ pc["all"] = "request" /\ pc'["all"] = "update"
                  /\ Len(checks') = Len(checks) + 1
                  /\ NewProbe.id = rec["all"].id
                  /\ chk'["all"] = Len(checks')
                  /\ outcome'["all"] = PerformCheck(NewProbe.event)
                  /\ outcome'["all"].is_up = NewFoundUp
                  /\ ~NewFoundUp => outcome'["all"].error \notin {None, "raised"}
           /\ (pc["all"] = "request" /\ pc'["all"] # "request")
               => (Len(checks') = Len(checks) + 1 /\ NewProbe.by = "all")
           /\ (pc["all"] = "update" /\ pc'["all"] # "update")
               => /\ pc'["all"] = "log"
                  /\ rec["all"].id \in DOMAIN domains
                       => /\ domains'[rec["all"].id].last_status = StatusOf(outcome["all"])
                          /\ domains'[rec["all"].id].last_error = outcome["all"].error
           /\ (pc["all"] = "log" /\ pc'["all"] # "log")
               => /\ Len(check_logs') = Len(check_logs) + 1
                  /\ check_logs'[Len(check_logs')].domain_id = rec["all"].id
                  /\ check_logs'[Len(check_logs')].status = StatusOf(outcome["all"])
                  /\ check_logs'[Len(check_logs')].error = outcome["all"].error
           /\ (pc["all"] # "list" /\ (rec'["all"] # rec["all"] \/ todo' # todo))
               => /\ pc["all"] \in {"log", "subs", "send"}
                  /\ checks[chk["all"]].by = "all"
                  /\ checks[chk["all"]].id = rec["all"].id
                  /\ IF todo # <<>>
                     THEN /\ rec'["all"] = Head(todo) /\ todo' = Tail(todo)
                          /\ pc'["all"] = "proxy_country"
                     ELSE /\ pc'["all"] = "idle" /\ ret'["all"] = ReturnedNone
           /\ (InPass("all") /\ pc'["all"] = "idle")
               => (pc["all"] = "list" \/ todo = <<>>)
         ]_vars

\* A batch over two rows has returned; the request of the one timed out, the
\* certificate of the other did not verify; both rows are down with the error.
C12_Witness ==
    /\ pc["all"] = "idle" /\ ret["all"] = ReturnedNone
    /\ Len(checks) = 2
    /\ checks[1].by = "all" /\ checks[2].by = "all"
    /\ checks[1].id # checks[2].id
    /\ checks[1].event.kind = "TimeoutError"
    /\ checks[2].event.kind = "ClientConnectorCertificateError"
    /\ \A k \in {1, 2} : /\ checks[k].id \in DOMAIN domains
                         /\ domains[checks[k].id].last_status = "down"
    /\ domains[checks[1].id].last_error = "TimeoutError"
    /\ domains[checks[2].id].last_error = "ERR_SSL_PROTOCOL_ERROR"
    /\ Len(check_logs) = 2

\* The chats of a sequence of send_message calls, in order.
ChatsOf(ds) == [i \in 1..Len(ds) |-> ds[i].chat]

\* C13: broadcast reads the subscribers once and calls send_message once for
\* each of them, in order, whether the calls before succeeded or failed; a
\* failed call ends neither the loop nor the check, and the check that started
\* the broadcast returns as it would have without the failure.
C13_Broadcast ==
    /\ [](\A p \in Procs :
            /\ ret[p].kind \in {"pending", "returned", "ValueError"}
            /\ pc[p] = "send"
                 => /\ chat_ids[p] # <<>>
                    /\ \A i, j \in 1..Len(ChatsOf(deliveries) \o chat_ids[p]) :
                          (ChatsOf(deliveries) \o chat_ids[p])[i] =
                          (ChatsOf(deliveries) \o chat_ids[p])[j] => i = j
                    /\ \A i \in 1..Len(deliveries) : deliveries[i].check = chk[p])
    /\ [][ \A p \in Procs :
             /\ (pc[p] = "subs" /\ pc'[p] # "subs")
                  => /\ deliveries = <<>> /\ deliveries' = <<>>
                     /\ chat_ids'[p] = ListSubscribers
                     /\ {chat_ids'[p][i] : i \in 1..Len(chat_ids'[p])} = subscribers
                     /\ (subscribers # {}) = (pc'[p] = "send")
             /\ (pc[p] = "send" /\ <<pc[p], chat_ids[p], deliveries>>' # <<pc[p], chat_ids[p], deliveries>>)
                  => /\ Len(deliveries') = Len(deliveries) + 1
                     /\ ChatsOf(deliveries') \o chat_ids'[p] = ChatsOf(deliveries) \o chat_ids[p]
                     /\ (pc'[p] = "send") = (chat_ids'[p] # <<>>)
                     /\ pc'[p] # "send"
                          => IF p = "all" /\ todo # <<>>
                             THEN pc'[p] = "proxy_country" /\ rec'[p] = Head(todo)
                             ELSE pc'[p] = "idle" /\ ret'[p] = ReturnedNone
                     /\ UNCHANGED <<domains, check_logs, notifications, checks>>
         ]_vars

\* A broadcast to two subscribers has ended and the batch has returned; the
\* first send_message call failed, the second succeeded.
C13_Witness ==
    /\ Len(deliveries) = 2
    /\ ~deliveries[1].ok /\ deliveries[2].ok
    /\ deliveries[1].chat # deliveries[2].chat
    /\ {deliveries[1].chat, deliveries[2].chat} = subscribers
    /\ pc["all"] = "idle" /\ ret["all"] = ReturnedNone

\* The proxies tagged with the preferred country.
Preferred == {i \in DOMAIN proxies : /\ proxies[i].country # None
                                     /\ LowerTag(proxies[i].country) = "turkey"}

\* What the rule of the choice allows on the pool as it is: the active one of
\* the preferred proxies, else the preferred proxy created last, else the
\* active proxy, else no proxy.
Allowed ==
    IF Preferred \cap Active # {} THEN Preferred \cap Active
    ELSE IF Preferred # {} THEN Latest(Preferred)
    ELSE IF Active # {} THEN Active
    ELSE {NoProxy}

\* C14 (as claimed): the proxy _get_proxy hands to the request is the one the
\* rule allows on the pool as it is when the request is made.
C14_EgressSelection ==
    [][ \A p \in Procs :
          (pc[p] # "request" /\ pc'[p] = "request") => proxy'[p] \in Allowed'
      ]_vars

\* The last probe of row id whose check has written the status.
LastWritten(id) == CHOOSE k \in WrittenProbes(id) : \A j \in WrittenProbes(id) : j <= k

\* The broadcast started last belongs to probe k and has ended.
BroadcastDone(k) ==
    /\ notifications # <<>>
    /\ notifications[Len(notifications)].check = k
    /\ \A p \in Procs : chk[p] = k => pc[p] \notin {"subs", "send"}

\* C15: a row that has been checked holds the status and the error of the
\* last probe that wrote it: up and NULL after a success, down and the probe's
\* error after a failure.  A check_all_domains probe that replaces the status
\* down by up starts exactly one broadcast, a recovery naming the domain, and
\* that broadcast calls send_message once for each chat it read from the
\* subscribers, all of them subscribed.
C15_RecordReflectsProbe ==
    /\ [](\A id \in DOMAIN domains :
            WrittenProbes(id) # {}
            => LET probe == PerformCheck(checks[LastWritten(id)].event)
               IN /\ domains[id].last_status = (IF FoundUp(LastWritten(id)) THEN "up" ELSE "down")
                  /\ domains[id].last_error = probe.error
                  /\ FoundUp(LastWritten(id)) => domains[id].last_error = None
                  /\ ~FoundUp(LastWritten(id)) => domains[id].last_error # None)
    /\ [](\A k \in Probes :
            (BatchProbe(k) /\ checks[k].stored = "down" /\ FoundUp(k))
            => /\ OneNote(k, "recovery")
               /\ (LastWritten(checks[k].id) = k /\ checks[k].id \in DOMAIN domains)
                    => /\ domains[checks[k].id].last_status = "up"
                       /\ domains[checks[k].id].last_error = None
               /\ BroadcastDone(k)
                    => /\ \A i \in 1..Len(deliveries) : /\ deliveries[i].check = k
                                                       /\ deliveries[i].chat \in subscribers
                       /\ \A i, j \in 1..Len(deliveries) :
                             deliveries[i].chat = deliveries[j].chat => i = j)
    /\ [][ (/\ notifications # <<>>
            /\ notifications[Len(notifications)].kind = "recovery"
            /\ pc["all"] \in {"subs", "send"}
            /\ pc'["all"] # pc["all"])
           => IF pc["all"] = "subs"
              THEN /\ chat_ids'["all"] = ListSubscribers
                   /\ \A c \in subscribers : \E i \in 1..Len(chat_ids'["all"]) :
                                                 chat_ids'["all"][i] = c
                   /\ deliveries' = <<>>
              ELSE /\ Len(chat_ids["all"]) = 1
                   /\ ChatsOf(deliveries') = ChatsOf(deliveries) \o chat_ids["all"]
         ]_vars

\* Two chats are subscribed; a batch found the domain down, the next found it
\* up: the row is up without an error and the recovery went to both chats.
C15_Witness ==
    \E k \in Probes :
        /\ BatchProbe(k) /\ checks[k].stored = "down" /\ FoundUp(k)
        /\ BroadcastDone(k)
        /\ pc["all"] = "idle"
        /\ Cardinality(subscribers) = 2
        /\ {deliveries[i].chat : i \in 1..Len(deliveries)} = subscribers
        /\ domains[checks[k].id].last_status = "up"

\* Probes j < k are check_all_domains probes of the same row with no
\* check_all_domains probe of that row between them.
ConsecutiveBatch(j, k) ==
    /\ j < k
    /\ checks[j].by = "all" /\ checks[k].by = "all"
    /\ checks[j].id = checks[k].id
    /\ \A m \in Probes :
          (j < m /\ m < k /\ checks[m].by = "all") => checks[m].id # checks[j].id

\* C16 (as claimed): when a check_all_domains pass finds a domain up and the
\* next pass finds it down, the second pass starts exactly one "went down"
\* broadcast naming the domain, whatever check_domain_by_name did between the
\* two passes.
C16_NoMissedTransition ==
    \A j, k \in Probes :
        ( /\ ConsecutiveBatch(j, k)
          /\ BatchProbe(j) /\ BatchProbe(k)
          /\ FoundUp(j) /\ ~FoundUp(k) )
        => OneNote(k, "down")

\* C17 (as claimed): once remove_domain has deleted a row that a running
\* check_all_domains pass had listed, the pass appends no log entry with that
\* row's id and starts no broadcast naming that domain.
C17_RemovalInvalidates ==
    [][ (/\ pc["all"] \in {"update", "log"}
         /\ pc'["all"] # pc["all"]
         /\ rec["all"].id \notin DOMAIN domains)
        => /\ check_logs' = check_logs
           /\ notifications' = notifications
      ]_vars

\* The log entries whose domain_id is not among ids, in their order.
LogsWithout(ids) == SelectSeq(check_logs, LAMBDA e : e.domain_id \notin ids)

\* C18 (as claimed): a step that deletes rows of domains deletes the log
\* entries of those rows with them (so that no entry is left with the id of a
\* row that is gone), and every other step leaves the entries there are as
\* they are: entries are only appended.
C18_LogIntegrity ==
    [][ IF DOMAIN domains' # DOMAIN domains /\ DOMAIN domains' \subseteq DOMAIN domains
        THEN check_logs' = LogsWithout(DOMAIN domains \ DOMAIN domains')
        ELSE /\ Len(check_logs') >= Len(check_logs)
             /\ SubSeq(check_logs', 1, Len(check_logs)) = check_logs
      ]_vars

\* C19: whatever the domain, the proxy chosen and the end of the request (a
\* response of any status, a timeout, a refused connection or failed lookup,
\* a TLS or certificate failure, an invalid URL), _perform_check returns one
\* outcome to _check_domain_record, which goes on to its status write; the
\* outcome is (True, None) or (False, a label that is not empty); no
\* exception of the request leaves a check.
C19_ProbeTotal ==
    /\ [](\A p \in Procs : ret[p].kind \in {"pending", "returned", "ValueError"})
    /\ [](\A k \in Probes :
            LET o == PerformCheck(checks[k].event)
            IN /\ o.error # "raised"
               /\ \/ (o.is_up /\ o.error = None)
                  \/ (~o.is_up /\ o.error \notin {None, ""}))
    /\ [][ \A p \in Procs :
             (pc[p] = "request" /\ pc'[p] # "request")
             => /\ pc'[p] = "update"
                /\ Len(checks') = Len(checks) + 1
                /\ outcome'[p] = PerformCheck(NewProbe.event)
                /\ NewProbe.name = rec[p].name
         ]_vars

\* A request made through a proxy ended in an exception and the check goes
\* on with the outcome (False, the label).
C19_Witness ==
    /\ pc["one"] = "update"
    /\ proxy["one"] # NoProxy
    /\ checks[chk["one"]].event.kind = "ClientConnectorError"
    /\ outcome["one"] = [is_up |-> FALSE, error |-> "ClientConnectorError"]

\* The label of the outcome of probe k.
Label(k) == PerformCheck(checks[k].event).error

\* C20: a response with a status below 400 is up without an error; a
\* response with a status of 400 or more is down with the error "HTTP <code>";
\* a certificate that does not verify, and every other failure of TLS, is down
\* with the error ERR_SSL_PROTOCOL_ERROR; every other failure of the transport
\* (timeout, refused connection or failed lookup, invalid URL, a server that
\* hangs up) is down with the name of its exception class.
C20_Classification ==
    \A k \in Probes :
        LET ev == checks[k].event
        IN /\ FoundUp(k) = PerformCheck(ev).is_up
           /\ (ev.kind = "response" /\ ev.status < 400) => Label(k) = None
           /\ (ev.kind = "response" /\ ev.status >= 400)
                => /\ ~PerformCheck(ev).is_up
                   /\ Label(k) = "HTTP " \o ToString(ev.status)
                   /\ Label(k) \in {"HTTP 400", "HTTP 503"}
           /\ ev.kind \in {"ClientConnectorCertificateError", "ClientConnectorSSLError",
                           "SSLError"}
                => Label(k) = "ERR_SSL_PROTOCOL_ERROR"
           /\ ev.kind \in {"TimeoutError", "ClientConnectorError", "InvalidURL",
                           "ServerDisconnectedError"}
                => Label(k) = ev.kind
           /\ \A j \in Probes :
                 (Decided(j) /\ checks[j].id \in DOMAIN domains /\ LastWritten(checks[j].id) = j)
                 => domains[checks[j].id].last_error = Label(j)

\* Two checks have run: the request of the one was answered 400, the
\* certificate of the other did not verify.
C20_Witness ==
    /\ Len(checks) = 2
    /\ checks[1].event = [kind |-> "response", status |-> 400]
    /\ checks[2].event.kind = "ClientConnectorCertificateError"
    /\ Decided(1) /\ Decided(2)
    /\ checks[2].id \in DOMAIN domains
    /\ domains[checks[2].id].last_error = "ERR_SSL_PROTOCOL_ERROR"

\* C21 (as claimed): the URL a probe requests is the stored name unchanged when
\* the name begins with the scheme http:// or https://, and https:// followed
\* by the name for every other name, a name that merely begins with the
\* letters http included.
C21_TargetUrl ==
    \A k \in Probes :
        checks[k].url = IF StartsWith(checks[k].name, Http) \/ StartsWith(checks[k].name, Https)
                        THEN checks[k].name
                        ELSE Https \o checks[k].name

\* A check's call has ended with an exception handed to its caller.
Failed(p) == ret[p].kind \in {"ValueError", "sqlite3.Error"}

\* C22: the lock is released on every way out of a check.  The step by which
\* check_domain_by_name raises ValueError, or by which the exception of a
\* store call (list_subscribers of the notifier included) leaves
\* check_all_domains or check_domain_by_name, leaves the lock free and hands
\* the exception to the caller; whoever holds the lock is inside the block,
\* so with no check running the lock is free; a check called while no other
\* is inside the block and none waits takes the lock at once; and every
\* coroutine that waits for the lock gets it and every check called comes to
\* its end.
C22_GateReleased ==
    /\ [](\A p \in Procs : locked = p => pc[p] \notin {"idle", "wait"})
    /\ []((\A p \in Procs : pc[p] = "idle") => locked = None /\ waiters = <<>>)
    /\ [][ \A p \in Procs :
              (pc[p] # "idle" /\ pc'[p] = "idle")
              => /\ locked' = None
                 /\ ret'[p] # Pending
                 /\ ret'[p].kind = "ValueError" => pc[p] = "get" /\ GetDomain(arg) = NoRec
                 /\ ret'[p].kind = "sqlite3.Error" => pc[p] \in StoreCalls
          ]_vars
    /\ [][ \A p \in Procs :
              (pc[p] = "idle" /\ pc'[p] # "idle" /\ locked = None /\ waiters = <<>>)
              => locked' = p /\ pc'[p] \in {"list", "get"}
          ]_vars
    /\ \A p \in Procs : (pc[p] = "wait") ~> (locked = p)
    /\ \A p \in Procs : (pc[p] # "idle") ~> (pc[p] = "idle")

\* check_all_domains was called first and ended with the exception of a
\* store call; check_domain_by_name, called before or after that exception,
\* holds the lock and is inside the block.
C22_Witness ==
    /\ ops = 2
    /\ Failed("all") /\ ret["all"].kind = "sqlite3.Error" /\ pc["all"] = "idle"
    /\ ret["one"] = Pending /\ pc["one"] = "get" /\ locked = "one" /\ waiters = <<>>

====
